---- MODULE Spec2Model ----
(***************************************************************************)
(* Model of apps/pi-forwarder/scripts/meshtastic-json-bridge.py:           *)
(* the normalizer to_jsonable, the payload extraction unwrap_packet, the   *)
(* relay callback on_receive and the lifecycle of main.                    *)
(*                                                                         *)
(* Python values are tagged records [kind, val].  Text is a sequence of    *)
(* one-character strings, bytes a sequence of 0..255.  A value of kind     *)
(* "ref" points into Heap, the object graph of the values that can only be *)
(* built by mutation (self-referential containers and objects).            *)
(***************************************************************************)
EXTENDS Integers, Sequences, FiniteSets, TLC

VARIABLES
    arg,        \* to_jsonable scenario: the value passed by the caller
    ret,        \* ... the outcome of to_jsonable(arg), or NotCalled
    ret2,       \* ... the outcome of to_jsonable applied to ret's value
    pc,         \* main: position of the main thread
    iface,      \* main: state of the serial connection
    subscribed, \* main: on_receive is registered on "meshtastic.receive"
    delivered,  \* relay: notifications dispatched to on_receive so far
    resolved,   \* relay: what unwrap_packet returned for each of them
    outcome,    \* relay: how each on_receive call ended
    out,        \* the output sink (stdout): the characters written so far
    tpc,        \* concurrent dispatch: position of each dispatcher thread
    tnote       \* concurrent dispatch: the notification each thread handles

vars == <<arg, ret, ret2, pc, iface, subscribed, delivered, resolved,
          outcome, out, tpc, tnote>>

---------------------------------------------------------------------------
(* Bounds of the model *)

\* longest list / tuple / set, mapping and attribute view enumerated
MaxLen == 2
\* notifications dispatched in one run of the relay
MaxEvents == 2
\* frames left on the interpreter's call stack when to_jsonable is entered
\* (sys.getrecursionlimit() scaled down; deeper than every acyclic input)
RecursionLimit == 6
\* threads of the library that may call on_receive at the same time
NThreads == 2

---------------------------------------------------------------------------
(* Python values *)

V(k, v) == [kind |-> k, val |-> v]

None == V("none", 0)
PyBool(b) == V("bool", b)
PyInt(n) == V("int", n)
PyFloat(repr) == V("float", repr)
PyStr(chars) == V("str", chars)
PyBytes(bs) == V("bytes", bs)
PyDict(pairs) == V("dict", pairs)
PyList(xs) == V("list", xs)
PyTuple(xs) == V("tuple", xs)
PySet(xs) == V("set", xs)
Ref(a) == V("ref", a)

\* a hook of an object: an attribute that is absent, raises when called, or
\* returns a value
Absent == [st |-> "absent", ret |-> None]
Raises == [st |-> "raises", ret |-> None]
Returns(v) == [st |-> "returns", ret |-> v]

\* an object that is none of the built-in types: proto is what
\* MessageToDict does on it (absent: no ListFields/DESCRIPTOR), to_dict its
\* to_dict method, attrs its __dict__ (a sequence of <<name, value>>),
\* text its str()
Obj(proto, todict, hasdict, attrs, text) ==
    V("obj", [proto |-> proto, to_dict |-> todict, has_dict |-> hasdict,
              attrs |-> attrs, text |-> text])

ScalarKinds == {"none", "str", "int", "float", "bool"}
SeqKinds == {"list", "tuple", "set"}

T_packet == <<"p", "a", "c", "k", "e", "t">>
T_obj == <<"<", "o", ">">>

\* The objects reachable only through mutation: each cell refers to itself
\* or to another cell.
Heap ==
    << PyList(<<Ref(1)>>),
       PyDict(<< <<PyStr(<<"s">>), Ref(2)>> >>),
       Obj(Absent, Absent, TRUE, << <<<<"x">>, Ref(3)>> >>, T_obj),
       Obj(Absent, Returns(Ref(4)), TRUE, <<>>, T_obj),
       PyTuple(<<PyInt(1), Ref(6)>>),
       PyList(<<Ref(5)>>) >>

Deref(v) == IF v.kind = "ref" THEN Heap[v.val] ELSE v

---------------------------------------------------------------------------
(* Text conversions *)

HexDigits == <<"0", "1", "2", "3", "4", "5", "6", "7", "8", "9",
               "a", "b", "c", "d", "e", "f">>

HexDigit(n) == HexDigits[n + 1]

\* hex without the leading zero of a byte below 16
RECURSIVE hex_unpadded(_)
hex_unpadded(bs) ==
    IF bs = <<>> THEN <<>>
    ELSE (IF Head(bs) < 16 THEN <<HexDigit(Head(bs))>>
          ELSE <<HexDigit(Head(bs) \div 16), HexDigit(Head(bs) % 16)>>)
         \o hex_unpadded(Tail(bs))

\* bytes.hex()
RECURSIVE hex(_)
hex(bs) ==
    IF bs = <<>> THEN <<>>
    ELSE <<HexDigit(Head(bs) \div 16), HexDigit(Head(bs) % 16)>> \o hex(Tail(bs))

\* decimal digits of a natural number
RECURSIVE Digits(_)
Digits(n) ==
    IF n < 10 THEN <<HexDigits[n + 1]>>
    ELSE Digits(n \div 10) \o <<HexDigits[(n % 10) + 1]>>

IntText(n) == IF n < 0 THEN <<"-">> \o Digits(0 - n) ELSE Digits(n)

\* repr(k) where str(k) is meant: text keys come out quoted
str_as_repr(k) ==
    CASE k.kind = "str" -> <<"'">> \o k.val \o <<"'">>
      [] k.kind = "int" -> IntText(k.val)
      [] k.kind = "float" -> k.val
      [] k.kind = "bool" -> IF k.val THEN <<"T", "r", "u", "e">>
                            ELSE <<"F", "a", "l", "s", "e">>
      [] k.kind = "none" -> <<"N", "o", "n", "e">>
      [] k.kind = "obj" -> k.val.text

\* str(k) of a mapping key
str(k) ==
    CASE k.kind = "str" -> k.val
      [] k.kind = "int" -> IntText(k.val)
      [] k.kind = "float" -> k.val
      [] k.kind = "bool" -> IF k.val THEN <<"T", "r", "u", "e">>
                            ELSE <<"F", "a", "l", "s", "e">>
      [] k.kind = "none" -> <<"N", "o", "n", "e">>
      [] k.kind = "obj" -> k.val.text

---------------------------------------------------------------------------
(* to_jsonable *)

Ok(v, tried) == [ok |-> TRUE, val |-> v, exc |-> "", tried |-> tried]
Raise(e, tried) == [ok |-> FALSE, val |-> None, exc |-> e, tried |-> tried]

\* d[k] = v on an insertion-ordered dict held as a sequence of pairs
SetItem(pairs, k, v) ==
    IF \E i \in 1..Len(pairs) : pairs[i][1] = k
    THEN [i \in 1..Len(pairs) |->
            IF pairs[i][1] = k THEN <<k, v>> ELSE pairs[i]]
    ELSE Append(pairs, <<k, v>>)

\* the dict built by inserting the pairs one after the other
RECURSIVE FromItems(_)
FromItems(pairs) ==
    IF pairs = <<>> THEN <<>>
    ELSE SetItem(FromItems(SubSeq(pairs, 1, Len(pairs) - 1)),
                 pairs[Len(pairs)][1], pairs[Len(pairs)][2])

\* the loop of lines 52-55 without the test of the private marker
PublicItems_unfiltered(items) == items

\* the entries of vars(value) that the loop keeps
RECURSIVE PublicItems(_)
PublicItems(items) ==
    IF items = <<>> THEN <<>>
    ELSE IF Head(items)[1] # <<>> /\ Head(items)[1][1] = "_"
         THEN PublicItems(Tail(items))
         ELSE <<Head(items)>> \o PublicItems(Tail(items))

\* the outcome of one of the guarded rules 5, 6, 7
NotApplicable == [st |-> "n/a", val |-> None]
Failed == [st |-> "failed", val |-> None]
Done(v) == [st |-> "done", val |-> v]

RECURSIVE to_jsonable(_, _)

\* rule 5: hasattr ListFields and DESCRIPTOR; MessageToDict, then
\* to_jsonable of its result; except Exception: pass
ProtoRule(o, d) ==
    IF o.proto.st = "absent" THEN NotApplicable
    ELSE IF o.proto.st = "raises" THEN Failed
    ELSE LET r == to_jsonable(o.proto.ret, d - 1)
         IN IF r.ok THEN Done(r.val) ELSE Failed

\* rule 6: hasattr to_dict; value.to_dict(), then to_jsonable of its
\* result; except Exception: pass
ToDictRule(o, d) ==
    IF o.to_dict.st = "absent" THEN NotApplicable
    ELSE IF o.to_dict.st = "raises" THEN Failed
    ELSE LET r == to_jsonable(o.to_dict.ret, d - 1)
         IN IF r.ok THEN Done(r.val) ELSE Failed

\* rule 7: hasattr __dict__; the public entries of vars(value), each
\* converted; returned only if not empty; except Exception: pass
AttrsRule(o, d) ==
    IF ~o.has_dict THEN NotApplicable
    ELSE LET pub == PublicItems(o.attrs)
             sub == [i \in 1..Len(pub) |-> to_jsonable(pub[i][2], d - 1)]
             converted == FromItems([i \in 1..Len(pub) |->
                                       <<PyStr(pub[i][1]), sub[i].val>>])
         IN IF \E i \in 1..Len(pub) : ~sub[i].ok THEN Failed
            ELSE IF converted = <<>> THEN Failed
            ELSE Done(PyDict(converted))

\* the rules 5..8 a call went through, given the outcomes of 5, 6 and 7
Tried(a5, a6, a7) ==
    LET t5 == IF a5.st = "n/a" THEN <<>> ELSE <<5>>
        t6 == IF a6.st = "n/a" THEN <<>> ELSE <<6>>
        t7 == IF a7.st = "n/a" THEN <<>> ELSE <<7>>
    IN IF a5.st = "done" THEN t5
       ELSE IF a6.st = "done" THEN t5 \o t6
       ELSE IF a7.st = "done" THEN t5 \o t6 \o t7
       ELSE t5 \o t6 \o t7 \o <<8>>

\* the to_dict rule placed before the structured-record rule
ObjectRules_to_dict_first(o, a5, a6, a7) ==
    IF a6.st = "done" THEN Ok(a6.val, Tried(a5, a6, a7))
    ELSE IF a5.st = "done" THEN Ok(a5.val, Tried(a5, a6, a7))
    ELSE IF a7.st = "done" THEN Ok(a7.val, Tried(a5, a6, a7))
    ELSE Ok(PyStr(o.text), Tried(a5, a6, a7))

\* lines 28-61: each guarded rule returns when it succeeds, otherwise the
\* next one is evaluated; str(value) is the last resort
ObjectRules(o, a5, a6, a7) ==
    IF a5.st = "done" THEN Ok(a5.val, Tried(a5, a6, a7))
    ELSE IF a6.st = "done" THEN Ok(a6.val, Tried(a5, a6, a7))
    ELSE IF a7.st = "done" THEN Ok(a7.val, Tried(a5, a6, a7))
    ELSE Ok(PyStr(o.text), Tried(a5, a6, a7))

\* to_jsonable(value) entered with d frames left.  The outcome is Ok with
\* the returned value or Raise with the exception that leaves the call;
\* tried lists the rules this call evaluated, in order.
to_jsonable(value0, d) ==
    IF d = 0 THEN Raise("RecursionError", <<>>) ELSE
    LET value == Deref(value0)
        kind == value.kind
        \* the recursive calls of the comprehensions of rules 3 and 4
        items == value.val
        sub == [i \in 1..Len(items) |->
                  to_jsonable(IF kind = "dict" THEN items[i][2] ELSE items[i],
                              d - 1)]
        failed == \E i \in 1..Len(items) : ~sub[i].ok
    IN
    CASE kind \in ScalarKinds -> Ok(value, <<1>>)
      [] kind = "bytes" -> Ok(PyStr(hex(value.val)), <<2>>)
      [] kind = "dict" ->
            IF failed THEN Raise("RecursionError", <<3>>)
            ELSE Ok(PyDict(FromItems([i \in 1..Len(items) |->
                                      <<PyStr(str(items[i][1])), sub[i].val>>])),
                    <<3>>)
      [] kind \in SeqKinds ->
            IF failed THEN Raise("RecursionError", <<4>>)
            ELSE Ok(PyList([i \in 1..Len(items) |-> sub[i].val]), <<4>>)
      [] kind = "obj" ->
            ObjectRules(value.val, ProtoRule(value.val, d),
                        ToDictRule(value.val, d), AttrsRule(value.val, d))

\* the call made by on_receive
Normalize(value) == to_jsonable(value, RecursionLimit)

NotCalled == [ok |-> FALSE, val |-> None, exc |-> "not called", tried |-> <<>>]

---------------------------------------------------------------------------
(* The values the callers pass *)

T_a == <<"a">>
T_b == <<"b">>
T_1 == <<"1">>
T_priv == <<"_", "p">>
F_1_5 == <<"1", ".", "5">>

ByteSamples == {0, 1, 171, 255}

SeqsOver(S) == UNION {[1..n -> S] : n \in 0..MaxLen}

Injective(f) == \A i, j \in DOMAIN f : i # j => f[i] # f[j]

BytesInputs == {PyBytes(bs) : bs \in SeqsOver(ByteSamples)}

Leaves == {None, PyBool(TRUE), PyInt(1), PyFloat(F_1_5), PyStr(T_a), PyStr(<<"\n">>),
           PyBytes(<<171, 1>>)}

\* the elements of a set are distinct (and True == 1), in iteration order
SeqInputs ==
    {PyList(xs) : xs \in SeqsOver(Leaves)}
    \cup {PyTuple(xs) : xs \in SeqsOver(Leaves)}
    \cup {PySet(xs) : xs \in {ys \in SeqsOver(Leaves \ {PyBool(TRUE)}) :
                                Injective(ys)}}

\* mapping keys: text and non-text; "1" and 1 have the same text form
Keys == {PyStr(T_a), PyStr(T_b), PyStr(T_1), PyInt(1)}
DictVals == {PyInt(1), PyBytes(<<171, 1>>), PyTuple(<<PyBytes(<<0>>)>>)}

DictInputs ==
    {PyDict([i \in DOMAIN ks |-> <<ks[i], vs[i]>>]) :
        <<ks, vs>> \in {p \in SeqsOver(Keys) \X SeqsOver(DictVals) :
                          Len(p[1]) = Len(p[2]) /\ Injective(p[1])}}

D_pos == PyDict(<< <<PyStr(<<"l", "a", "t">>), PyInt(377749)>> >>)

Hooks == {Absent, Raises, Returns(PyDict(<<>>)), Returns(D_pos), Returns(Ref(2))}

AttrEntries == { <<T_a, PyInt(1)>>, <<T_b, PyBytes(<<171, 1>>)>>,
                 <<T_priv, PyInt(1)>>, <<<<"c">>, Ref(1)>> }

AttrViews == {xs \in SeqsOver(AttrEntries) :
                \A i, j \in DOMAIN xs : i # j => xs[i][1] # xs[j][1]}

ObjInputs ==
    {Obj(p, t, TRUE, a, T_obj) : p \in Hooks, t \in Hooks, a \in AttrViews}
    \cup {Obj(p, t, FALSE, <<>>, T_obj) : p \in Hooks, t \in Hooks}

O_plain == Obj(Absent, Absent, TRUE, << <<T_a, PyBytes(<<1>>)>> >>, T_obj)
O_slots == Obj(Absent, Absent, FALSE, <<>>, T_obj)

NestedInputs ==
    {V(k, xs) : k \in {"list", "tuple"},
                xs \in SeqsOver({PyInt(1), O_plain, D_pos, Ref(1),
                                 PyList(<<O_slots>>)})}
    \cup {PyDict(<< <<PyStr(T_a), v>> >>) :
            v \in {O_plain, Ref(2), Ref(5), PyList(<<D_pos>>)}}

RefInputs == {Ref(a) : a \in DOMAIN Heap}

Inputs == Leaves \cup BytesInputs \cup SeqInputs \cup DictInputs
          \cup ObjInputs \cup NestedInputs \cup RefInputs

---------------------------------------------------------------------------
(* Scenario 1: a caller applies to_jsonable to a value, then to its result *)

RelayIdle ==
    /\ pc = "start" /\ iface = "none" /\ subscribed = FALSE
    /\ delivered = <<>> /\ resolved = <<>> /\ outcome = <<>> /\ out = <<>>
    /\ tpc = <<>> /\ tnote = <<>>

NormInit ==
    /\ arg \in Inputs
    /\ ret = NotCalled
    /\ ret2 = NotCalled
    /\ RelayIdle

Call ==
    /\ ret = NotCalled
    /\ ret' = Normalize(arg)
    /\ UNCHANGED <<arg, ret2, pc, iface, subscribed, delivered, resolved,
                   outcome, out, tpc, tnote>>

CallAgain ==
    /\ ret.ok
    /\ ret2 = NotCalled
    /\ ret2' = Normalize(ret.val)
    /\ UNCHANGED <<arg, ret, pc, iface, subscribed, delivered, resolved,
                   outcome, out, tpc, tnote>>

NormNext == Call \/ CallAgain

SpecNorm == NormInit /\ [][NormNext]_vars

---------------------------------------------------------------------------
(* json.dumps(obj, ensure_ascii=False) *)

Escape(c) ==
    CASE c = "\"" -> <<"\\", "\"">>
      [] c = "\\" -> <<"\\", "\\">>
      [] c = "\n" -> <<"\\", "n">>
      [] c = "\r" -> <<"\\", "r">>
      [] c = "\t" -> <<"\\", "t">>
      [] OTHER -> <<c>>

RECURSIVE Escaped(_)
Escaped(chars) ==
    IF chars = <<>> THEN <<>>
    ELSE Escape(Head(chars)) \o Escaped(Tail(chars))

Quoted(chars) == <<"\"">> \o Escaped(chars) \o <<"\"">>

\* sep.join(parts)
RECURSIVE Join(_, _)
Join(parts, sep) ==
    IF parts = <<>> THEN <<>>
    ELSE IF Len(parts) = 1 THEN parts[1]
    ELSE parts[1] \o sep \o Join(Tail(parts), sep)

RECURSIVE dumps(_)
dumps(v) ==
    CASE v.kind = "none" -> <<"n", "u", "l", "l">>
      [] v.kind = "bool" -> IF v.val THEN <<"t", "r", "u", "e">>
                            ELSE <<"f", "a", "l", "s", "e">>
      [] v.kind = "int" -> IntText(v.val)
      [] v.kind = "float" -> v.val
      [] v.kind = "str" -> Quoted(v.val)
      [] v.kind = "list" ->
            <<"[">> \o Join([i \in DOMAIN v.val |-> dumps(v.val[i])],
                            <<",", " ">>) \o <<"]">>
      [] v.kind = "dict" ->
            <<"{">> \o Join([i \in DOMAIN v.val |->
                               Quoted(v.val[i][1].val) \o <<":", " ">>
                               \o dumps(v.val[i][2])],
                            <<",", " ">>) \o <<"}">>

---------------------------------------------------------------------------
(* unwrap_packet and on_receive *)

\* d.get(key) on a dict
Get(d, key) ==
    IF \E i \in DOMAIN d.val : d.val[i][1] = key
    THEN d.val[CHOOSE i \in DOMAIN d.val : d.val[i][1] = key][2]
    ELSE None

IsDict(v) == Deref(v).kind = "dict"

\* unwrap_packet without the test that the entry is a dict
unwrap_packet_any_entry(packet, kwargs) ==
    LET res == IF packet # None THEN packet
               ELSE Get(kwargs, PyStr(T_packet))
    IN IF IsDict(res) /\ \E i \in DOMAIN Deref(res).val :
                            Deref(res).val[i][1] = PyStr(T_packet)
       THEN Get(Deref(res), PyStr(T_packet))
       ELSE res

\* unwrap_packet(packet=None, **kwargs)
unwrap_packet(packet, kwargs) ==
    LET res == IF packet # None THEN packet
               ELSE Get(kwargs, PyStr(T_packet))
    IN IF IsDict(res) /\ IsDict(Get(Deref(res), PyStr(T_packet)))
       THEN Get(Deref(res), PyStr(T_packet))
       ELSE res

\* a notification: the keyword arguments pubsub calls on_receive with.
\* "packet" and "interface" bind to the named parameters, so the **kwargs
\* that on_receive passes on never holds the key "packet".
Note(packet, kwargs) == [packet |-> packet, kwargs |-> kwargs]

\* line 72
Resolve(n) == unwrap_packet(n.packet, n.kwargs)

\* line 75: the text handed to print, when to_jsonable returns
LineText(n) == dumps(Normalize(Resolve(n)).val)

\* how a call of on_receive ends
Outcome(n) ==
    IF Resolve(n) = None THEN "dropped"
    ELSE IF ~Normalize(Resolve(n)).ok THEN "raised"
    ELSE "written"

NL == <<"\n">>

\* print(text, flush=True), the writer running alone: the characters that
\* reach the sink
Printed(n) == IF Outcome(n) = "written" THEN LineText(n) \o NL ELSE <<>>

P_from == PyDict(<< <<PyStr(<<"f">>), PyInt(1)>> >>)
P_text == PyDict(<< <<PyStr(<<"t">>), PyStr(<<"a", "\n", "b">>)>>,
                    <<PyStr(<<"r">>), PyBytes(<<171, 1>>)>> >>)
Wrap(v) == PyDict(<< <<PyStr(T_packet), v>> >>)

Payloads ==
    { None, P_from, P_text, Wrap(P_from), Wrap(Wrap(P_from)),
      Wrap(PyInt(5)), Wrap(None), PyStr(T_a), PyList(<<PyInt(1)>>),
      Ref(1), Wrap(Ref(2)), O_plain }

Notifications ==
    {Note(p, PyDict(<<>>)) : p \in Payloads}
    \cup {Note(None, PyDict(<< <<PyStr(<<"k">>), P_from>> >>))}

---------------------------------------------------------------------------
(* Scenario 2: main, with the library dispatching one notification at a *)
(* time to on_receive                                                    *)

NormIdle == arg = None /\ ret = NotCalled /\ ret2 = NotCalled

Init ==
    /\ NormIdle
    /\ RelayIdle

\* line 83: SerialInterface(devPath=args.port) returns
Connect ==
    /\ pc = "start"
    /\ pc' = "connected"
    /\ iface' = "open"
    /\ UNCHANGED <<arg, ret, ret2, subscribed, delivered, resolved, outcome,
                   out, tpc, tnote>>

\* line 83: the device cannot be opened; the exception ends the process
ConnectFails ==
    /\ pc = "start"
    /\ pc' = "exited"
    /\ UNCHANGED <<arg, ret, ret2, iface, subscribed, delivered, resolved,
                   outcome, out, tpc, tnote>>

\* line 84: pub.subscribe returns; the try statement is entered
Subscribe ==
    /\ pc = "connected"
    /\ pc' = "listening"
    /\ subscribed' = TRUE
    /\ UNCHANGED <<arg, ret, ret2, iface, delivered, resolved, outcome,
                   out, tpc, tnote>>

\* line 84: pub.subscribe raises, or KeyboardInterrupt arrives before the
\* try statement of line 86 is entered: no finally clause is active
RaiseBeforeTry ==
    /\ pc = "connected"
    /\ pc' = "exited"
    /\ UNCHANGED <<arg, ret, ret2, iface, subscribed, delivered, resolved,
                   outcome, out, tpc, tnote>>

\* lines 87-88: one time.sleep(1) of the run loop
Sleep ==
    /\ pc = "listening"
    /\ UNCHANGED vars

\* lines 86-89: KeyboardInterrupt in the run loop; control enters finally
Interrupt ==
    /\ pc = "listening"
    /\ pc' = "closing"
    /\ UNCHANGED <<arg, ret, ret2, iface, subscribed, delivered, resolved,
                   outcome, out, tpc, tnote>>

\* line 90: iface.close(), then the exception ends the process
Close ==
    /\ pc = "closing"
    /\ iface' = "closed"
    /\ pc' = "exited"
    /\ UNCHANGED <<arg, ret, ret2, subscribed, delivered, resolved, outcome,
                   out, tpc, tnote>>

\* lines 71-75: the library calls on_receive with notification n
Receive(n) ==
    /\ subscribed
    /\ iface = "open"
    /\ pc \in {"listening", "closing"}
    /\ Len(delivered) < MaxEvents
    /\ delivered' = Append(delivered, n)
    /\ resolved' = Append(resolved, Resolve(n))
    /\ outcome' = Append(outcome, Outcome(n))
    /\ out' = out \o Printed(n)
    /\ UNCHANGED <<arg, ret, ret2, pc, iface, subscribed, tpc, tnote>>

Next ==
    \/ Connect
    \/ ConnectFails
    \/ Subscribe
    \/ RaiseBeforeTry
    \/ Sleep
    \/ Interrupt
    \/ Close
    \/ \E n \in Notifications : Receive(n)

Spec == Init /\ [][Next]_vars

---------------------------------------------------------------------------
(* Scenario 3: the library dispatches notifications to on_receive from  *)
(* several threads.  print(text, flush=True) writes the text, then the   *)
(* line terminator, then flushes: three calls on sys.stdout, and the     *)
(* script holds no lock around them.                                     *)

Threads == 1..NThreads

ConcPayloads == {None, P_from, P_text, PyStr(T_a), Ref(1)}

ConcInit ==
    /\ NormIdle
    /\ pc = "listening"
    /\ iface = "open"
    /\ subscribed = TRUE
    /\ delivered = <<>> /\ resolved = <<>> /\ outcome = <<>> /\ out = <<>>
    /\ tpc = [t \in Threads |-> "idle"]
    /\ tnote = [t \in Threads |-> Note(None, PyDict(<<>>))]

\* the library calls on_receive(n) on thread t
Dispatch(t, n) ==
    /\ tpc[t] = "idle"
    /\ Len(delivered) < MaxEvents
    /\ delivered' = Append(delivered, n)
    /\ tnote' = [tnote EXCEPT ![t] = n]
    /\ tpc' = [tpc EXCEPT ![t] = "entered"]
    /\ UNCHANGED <<arg, ret, ret2, pc, iface, subscribed, resolved, outcome,
                   out>>

\* lines 72-75 up to the call of print: the payload is resolved and the
\* argument of print computed; the call returns early on an absent
\* payload and ends when to_jsonable raises
Evaluate(t) ==
    /\ tpc[t] = "entered"
    /\ resolved' = Append(resolved, Resolve(tnote[t]))
    /\ outcome' = Append(outcome, Outcome(tnote[t]))
    /\ tpc' = [tpc EXCEPT ![t] = IF Outcome(tnote[t]) = "written"
                                 THEN "write_text" ELSE "idle"]
    /\ UNCHANGED <<arg, ret, ret2, pc, iface, subscribed, delivered, out,
                   tnote>>

\* line 75, print: sys.stdout.write(text)
WriteText(t) ==
    /\ tpc[t] = "write_text"
    /\ out' = out \o LineText(tnote[t])
    /\ tpc' = [tpc EXCEPT ![t] = "write_end"]
    /\ UNCHANGED <<arg, ret, ret2, pc, iface, subscribed, delivered,
                   resolved, outcome, tnote>>

\* line 75, print: sys.stdout.write(end)
WriteEnd(t) ==
    /\ tpc[t] = "write_end"
    /\ out' = out \o NL
    /\ tpc' = [tpc EXCEPT ![t] = "flush"]
    /\ UNCHANGED <<arg, ret, ret2, pc, iface, subscribed, delivered,
                   resolved, outcome, tnote>>

\* line 75, print: sys.stdout.flush(), then on_receive returns
Flush(t) ==
    /\ tpc[t] = "flush"
    /\ tpc' = [tpc EXCEPT ![t] = "idle"]
    /\ UNCHANGED <<arg, ret, ret2, pc, iface, subscribed, delivered,
                   resolved, outcome, out, tnote>>

ConcNext ==
    \E t \in Threads :
        \/ \E p \in ConcPayloads : Dispatch(t, Note(p, PyDict(<<>>)))
        \/ Evaluate(t)
        \/ WriteText(t)
        \/ WriteEnd(t)
        \/ Flush(t)

SpecConc == ConcInit /\ [][ConcNext]_vars

---------------------------------------------------------------------------
(* Vocabulary of the properties *)

Range(f) == {f[i] : i \in DOMAIN f}

Called == ret # NotCalled
CalledAgain == ret2 # NotCalled

\* JSON-Safe Value: null, boolean, number, string, array of JSON-safe
\* values, object with string keys and JSON-safe values
RECURSIVE JsonSafe(_)
JsonSafe(v) ==
    CASE v.kind \in ScalarKinds -> TRUE
      [] v.kind = "list" -> \A i \in DOMAIN v.val : JsonSafe(v.val[i])
      [] v.kind = "dict" ->
            \A i \in DOMAIN v.val :
                v.val[i][1].kind = "str" /\ JsonSafe(v.val[i][2])
      [] OTHER -> FALSE

LowerHex == <<"0", "1", "2", "3", "4", "5", "6", "7", "8", "9",
              "a", "b", "c", "d", "e", "f">>

HexValue(c) == (CHOOSE n \in 1..16 : LowerHex[n] = c) - 1

IsPrivate(name) == name # <<>> /\ name[1] = "_"

---------------------------------------------------------------------------
(* C1 *)

\* C1: to_jsonable is total: whatever value it is called with, nested and
\* self-referential values included, the call returns (it does not raise)
\* and what it returns is a JSON-safe value.
C1_Total == Called => (ret.ok /\ JsonSafe(ret.val))

---------------------------------------------------------------------------
(* C4 *)

---------------------------------------------------------------------------
(* C9 *)

\* C9: for raw bytes b the result is a string of exactly 2 * len(b)
\* characters, all of them among 0-9 and a-f (lowercase, no prefix, no
\* separator), and the i-th pair of characters is the hexadecimal value
\* of the i-th byte.
C9_Hex ==
    (Called /\ arg.kind = "bytes") =>
        /\ ret.ok
        /\ ret.val.kind = "str"
        /\ Len(ret.val.val) = 2 * Len(arg.val)
        /\ \A j \in DOMAIN ret.val.val : ret.val.val[j] \in Range(LowerHex)
        /\ \A i \in DOMAIN arg.val :
              16 * HexValue(ret.val.val[2 * i - 1])
                 + HexValue(ret.val.val[2 * i]) = arg.val[i]

\* two bytes were converted, one below 16 and one with a letter digit
C9_Witness ==
    /\ Called
    /\ arg.kind = "bytes"
    /\ Len(arg.val) >= 2
    /\ \E i \in DOMAIN arg.val : arg.val[i] < 16
    /\ \E i \in DOMAIN arg.val : arg.val[i] >= 160

---------------------------------------------------------------------------
(* C7 *)

\* the object to_jsonable was called with, when it is one
ArgObj == Deref(arg).val

NoPublicEntries(o) ==
    o.has_dict /\ \A i \in DOMAIN o.attrs : IsPrivate(o.attrs[i][1])

\* C7: an object that reaches the exported-attributes rule (the
\* structured-record and to_dict rules did not apply or failed) and whose
\* __dict__ has no public entry (it is empty, or every key starts with "_")
\* is converted to str(value); the result is never the empty object {}.
C7_EmptyViewFallsBack ==
    (Called /\ Deref(arg).kind = "obj" /\ NoPublicEntries(ArgObj)
        /\ 7 \in Range(ret.tried)) =>
        /\ ret.ok
        /\ ret.val = PyStr(ArgObj.text)
        /\ ret.val # PyDict(<<>>)

\* an object with only private attributes, and no other hook, was converted
C7_Witness ==
    /\ Called
    /\ Deref(arg).kind = "obj"
    /\ ArgObj.proto.st = "absent"
    /\ ArgObj.to_dict.st = "absent"
    /\ ArgObj.has_dict
    /\ ArgObj.attrs # <<>>
    /\ NoPublicEntries(ArgObj)
    /\ 7 \in Range(ret.tried)

---------------------------------------------------------------------------
(* C8 *)

\* a sequence without the later occurrences of its elements
RECURSIVE FirstOccurrences(_)
FirstOccurrences(xs) ==
    IF xs = <<>> THEN <<>>
    ELSE LET front == FirstOccurrences(SubSeq(xs, 1, Len(xs) - 1))
             last == xs[Len(xs)]
         IN IF last \in Range(front) THEN front ELSE Append(front, last)

ArgItems == Deref(arg).val
KeyText(i) == PyStr(str(ArgItems[i][1]))

\* the result has the text forms of the input keys, in the input's order,
\* and at each key the conversion of the value of the last input entry
\* whose key has that text form
C8_Shape ==
    /\ ret.val.kind = "dict"
    /\ [j \in DOMAIN ret.val.val |-> ret.val.val[j][1]]
         = FirstOccurrences([i \in DOMAIN ArgItems |-> KeyText(i)])
    /\ \A j \in DOMAIN ret.val.val :
          LET last == CHOOSE i \in DOMAIN ArgItems :
                        /\ KeyText(i) = ret.val.val[j][1]
                        /\ \A i2 \in DOMAIN ArgItems :
                              KeyText(i2) = ret.val.val[j][1] => i2 <= i
          IN ret.val.val[j][2]
               = to_jsonable(ArgItems[last][2], RecursionLimit - 1).val

\* C8: for every mapping, to_jsonable returns an object whose keys are the
\* text forms of the input keys in insertion order, each with the
\* conversion of its value, the later value winning when two keys have the
\* same text form.
C8_Mapping ==
    (Called /\ Deref(arg).kind = "dict") => (ret.ok /\ C8_Shape)

\* what holds of every call on a mapping that returns
C8_ShapeWhenReturned ==
    (Called /\ Deref(arg).kind = "dict" /\ ret.ok) => C8_Shape

---------------------------------------------------------------------------
(* C10 *)

\* the guarded rules whose test an object passes, then the fallback
ApplicableRules(o) ==
    (IF o.proto.st # "absent" THEN <<5>> ELSE <<>>)
    \o (IF o.to_dict.st # "absent" THEN <<6>> ELSE <<>>)
    \o (IF o.has_dict THEN <<7>> ELSE <<>>)
    \o <<8>>

Below == RecursionLimit - 1

\* whether a rule, evaluated on its own, produces a result, and which
Succeeds(o, rule) ==
    CASE rule = 5 -> o.proto.st = "returns"
                     /\ to_jsonable(o.proto.ret, Below).ok
      [] rule = 6 -> o.to_dict.st = "returns"
                     /\ to_jsonable(o.to_dict.ret, Below).ok
      [] rule = 7 -> /\ \E i \in DOMAIN o.attrs : ~IsPrivate(o.attrs[i][1])
                     /\ \A i \in DOMAIN o.attrs :
                           IsPrivate(o.attrs[i][1])
                           \/ to_jsonable(o.attrs[i][2], Below).ok
      [] rule = 8 -> TRUE

ResultOf(o, rule) ==
    CASE rule = 5 -> to_jsonable(o.proto.ret, Below).val
      [] rule = 6 -> to_jsonable(o.to_dict.ret, Below).val
      [] rule = 7 ->
            LET keep == SelectSeq(o.attrs, LAMBDA e : ~IsPrivate(e[1]))
            IN PyDict([i \in DOMAIN keep |->
                         <<PyStr(keep[i][1]),
                           to_jsonable(keep[i][2], Below).val>>])
      [] rule = 8 -> PyStr(o.text)

---------------------------------------------------------------------------
(* C2 *)

\* the newline-terminated lines of a character stream, and what follows
\* the last newline
RECURSIVE LinesFrom(_, _, _)
LinesFrom(stream, lines, cur) ==
    IF stream = <<>> THEN [lines |-> lines, tail |-> cur]
    ELSE IF Head(stream) = "\n"
         THEN LinesFrom(Tail(stream), Append(lines, cur), <<>>)
         ELSE LinesFrom(Tail(stream), lines, Append(cur, Head(stream)))

Lines(stream) == LinesFrom(stream, <<>>, <<>>).lines
Unterminated(stream) == LinesFrom(stream, <<>>, <<>>).tail

\* the notifications among delivered whose payload resolved to a value
Present == SelectSeq(delivered, LAMBDA n : Resolve(n) # None)

\* C2: the sink holds exactly one newline-terminated line per delivered
\* notification whose payload resolves to a value, in arrival order, and
\* nothing for a notification whose payload resolves to absent, whatever
\* was delivered before it.
C2_OneLinePerPayload ==
    /\ Unterminated(out) = <<>>
    /\ Len(Lines(out)) = Len(Present)
    /\ \A i \in DOMAIN Present :
          Normalize(Resolve(Present[i])).ok
          /\ Lines(out)[i] = dumps(Normalize(Resolve(Present[i])).val)

\* what holds of every run: one line per call that reached print
C2_OneLinePerWrite ==
    LET written == SelectSeq(delivered, LAMBDA n : Outcome(n) = "written")
    IN /\ Unterminated(out) = <<>>
       /\ Lines(out) = [i \in DOMAIN written |-> LineText(written[i])]
       /\ \A i \in DOMAIN delivered :
             resolved[i] = None <=> outcome[i] = "dropped"

---------------------------------------------------------------------------
(* C3 *)

HasPacketEntry(p) ==
    IsDict(p) /\ \E j \in DOMAIN Deref(p).val :
                    Deref(p).val[j][1] = PyStr(T_packet)

PacketEntry(p) ==
    Deref(p).val[CHOOSE j \in DOMAIN Deref(p).val :
                    Deref(p).val[j][1] = PyStr(T_packet)][2]

\* C3 as stated: a notification that is a mapping with an entry "packet"
\* resolves to that entry, whatever the entry is; every other notification
\* value resolves to itself.
C3_UnwrapAnyEntry ==
    \A i \in DOMAIN delivered :
        LET p == delivered[i].packet
        IN IF HasPacketEntry(p) THEN resolved[i] = PacketEntry(p)
           ELSE resolved[i] = p

\* C3: a notification that is a mapping whose entry "packet" is itself a
\* mapping resolves to that entry, unwrapped once only, and the line
\* written is the one written for the entry delivered directly; every
\* other notification value, a mapping whose entry "packet" is not a
\* mapping included, resolves to itself.
C3_UnwrapMappingEntry ==
    \A i \in DOMAIN delivered :
        LET p == delivered[i].packet
            e == PacketEntry(p)
            direct == Note(e, PyDict(<<>>))
        IN IF HasPacketEntry(p) /\ IsDict(e)
           THEN /\ resolved[i] = e
                /\ ~(HasPacketEntry(e) /\ IsDict(PacketEntry(e))) =>
                      /\ outcome[i] = Outcome(direct)
                      /\ Printed(delivered[i]) = Printed(direct)
           ELSE resolved[i] = p

\* a doubly wrapped payload, a wrapper of a non-mapping and a plain
\* payload have been delivered
C3_Witness ==
    /\ \E i \in DOMAIN delivered :
          /\ delivered[i].packet = Wrap(Wrap(P_from))
          /\ resolved[i] = Wrap(P_from)
          /\ outcome[i] = "written"
    /\ \E i \in DOMAIN delivered :
          /\ delivered[i].packet = Wrap(PyInt(5))
          /\ resolved[i] = Wrap(PyInt(5))

---------------------------------------------------------------------------
(* C6 *)

\* C6: the connection opened at startup is released on every path to
\* process exit: no execution that reached Connected (the connection is
\* open) ends the process without iface.close() having been performed.
C6_ReleasedOnExit == pc = "exited" => iface # "open"

---------------------------------------------------------------------------
(* C5 *)

\* the texts that calls of on_receive handed to print so far
Texts ==
    {LineText(delivered[i]) :
        i \in {j \in DOMAIN delivered : Outcome(delivered[j]) = "written"}}

\* C5: with concurrent dispatch every record appears contiguously in the
\* sink: each terminated line is the text of one record, and what follows
\* the last terminator is nothing or the text of one record whose
\* terminator is still to be written.
C5_Contiguous ==
    /\ \A l \in Range(Lines(out)) : l \in Texts
    /\ Unterminated(out) = <<>> \/ Unterminated(out) \in Texts

====
